---------------------------- MODULE Spec2Model ----------------------------
(***************************************************************************)
(* Offline campus helpdesk agent (src/app.py): the intent router           *)
(* naive_router / ask, its three tools (faq_lookup, policy_fetch,          *)
(* workflow_guide) and the text helpers they rest on.                      *)
(*                                                                         *)
(* A Python str is modelled as a sequence of one-character strings, so     *)
(* that substring tests, stripping, lowering, splitting and the regular    *)
(* expressions of the source are computed, not assumed.  A tool result (a  *)
(* Python dict) is a record whose DOMAIN is the dict's key set, so         *)
(* `"body" in pol` is `"body" \in DOMAIN pol`.                             *)
(***************************************************************************)
EXTENDS Integers, Sequences, FiniteSets, TLC

(***************************************************************************)
(* Characters and Python's str primitives                                  *)
(***************************************************************************)

\* The characters str.isspace() / the regex class \s accept, among those the
\* model's texts use.
WS == {" ", "\n", "\t"}

UpperChars == <<"A","B","C","D","E","F","G","H","I","J","K","L","M",
                "N","O","P","Q","R","S","T","U","V","W","X","Y","Z">>

LowerChars == <<"a","b","c","d","e","f","g","h","i","j","k","l","m",
                "n","o","p","q","r","s","t","u","v","w","x","y","z">>

DigitChars == <<"0","1","2","3","4","5","6","7","8","9">>

\* Code-point order of the characters the model's texts use (ASCII order),
\* for sorted() on strings.
CharOrder == <<"\t", "\n", " ", "!", "#", "'", "(", ")", "*", ",", "-", ".">> \o DigitChars
             \o <<":", "?">> \o UpperChars \o LowerChars

IndexIn(c, seq) ==
    IF \E i \in 1..Len(seq) : seq[i] = c
    THEN CHOOSE i \in 1..Len(seq) : seq[i] = c
    ELSE 0

AllChars == {CharOrder[i] : i \in 1..Len(CharOrder)}

OrdTable == [c \in AllChars |-> IndexIn(c, CharOrder)]

Ord(c) == OrdTable[c]

UpperSet == {UpperChars[i] : i \in 1..Len(UpperChars)}

\* str.lower() on one character.
LowerChar(c) ==
    IF c \in UpperSet THEN LowerChars[IndexIn(c, UpperChars)] ELSE c

\* str.lower()
lower(s) == [i \in 1..Len(s) |-> LowerChar(s[i])]

Drop(s, n) == SubSeq(s, n + 1, Len(s))

Take(s, n) == SubSeq(s, 1, n)

\* Number of leading characters of s that belong to the class cls.
RECURSIVE RunLen(_, _)
RunLen(s, cls) ==
    IF s = <<>> \/ Head(s) \notin cls THEN 0 ELSE 1 + RunLen(Tail(s), cls)

\* Number of trailing characters of s that belong to the class cls.
RECURSIVE RunLenEnd(_, _)
RunLenEnd(s, cls) ==
    IF s = <<>> \/ s[Len(s)] \notin cls THEN 0
    ELSE 1 + RunLenEnd(Take(s, Len(s) - 1), cls)

\* str.strip()
strip(s) ==
    LET l == Drop(s, RunLen(s, WS)) IN Take(l, Len(l) - RunLenEnd(l, WS))

\* `sub in s` on strings.
StartsWith(s, p) == Len(p) <= Len(s) /\ Take(s, Len(p)) = p

\* Whether sub occurs in s at offset i.
OccursAt(sub, s, i) == \A j \in 1..Len(sub) : s[i + j] = sub[j]

Contains(sub, s) == \E i \in 0..(Len(s) - Len(sub)) : OccursAt(sub, s, i)

\* First index (0-based offset) at which sub occurs in s; -1 when it does not.
Find(sub, s) ==
    IF Contains(sub, s)
    THEN CHOOSE i \in 0..(Len(s) - Len(sub)) :
            /\ OccursAt(sub, s, i)
            /\ \A j \in 0..(i - 1) : ~OccursAt(sub, s, j)
    ELSE -1

\* sep.join(parts)
RECURSIVE Join(_, _)
Join(sep, parts) ==
    IF parts = <<>> THEN <<>>
    ELSE IF Len(parts) = 1 THEN parts[1]
    ELSE parts[1] \o sep \o Join(sep, Tail(parts))

\* The maximal runs of characters of class cls in s, in order:
\* re.findall(r"[cls]+", s).
RECURSIVE Runs(_, _)
Runs(s, cls) ==
    IF s = <<>> THEN <<>>
    ELSE IF Head(s) \in cls
         THEN LET n == RunLen(s, cls) IN <<Take(s, n)>> \o Runs(Drop(s, n), cls)
         ELSE Runs(Tail(s), cls)

NonWS == AllChars \ WS

\* str.split() with no argument: the maximal runs of non-whitespace.
split(s) == Runs(s, NonWS)

\* re.sub(r"\s+", " ", s): every whitespace run becomes one space, that is,
\* a whitespace character that follows another is dropped and the others
\* become spaces.
CollapseWS(s) ==
    LET kept == SelectSeq([i \in 1..Len(s) |-> i],
                          LAMBDA i : s[i] \notin WS \/ i = 1 \/ s[i - 1] \notin WS)
    IN  [k \in 1..Len(kept) |-> IF s[kept[k]] \in WS THEN " " ELSE s[kept[k]]]

\* normalize(text)
normalize(text) == CollapseWS(lower(strip(text)))

SlugChars == {LowerChars[i] : i \in 1..26} \cup {DigitChars[i] : i \in 1..10} \cup {"-"}

\* slugify(s)
slugify(s) ==
    LET n == normalize(s)
        hyph == [i \in 1..Len(n) |-> IF n[i] = " " THEN "-" ELSE n[i]]
    IN SelectSeq(hyph, LAMBDA c : c \in SlugChars)

\* Lexicographic order on strings by code point (Python's str <).
RECURSIVE StrLess(_, _)
StrLess(a, b) ==
    IF b = <<>> THEN FALSE
    ELSE IF a = <<>> THEN TRUE
    ELSE IF Head(a) = Head(b) THEN StrLess(Tail(a), Tail(b))
    ELSE Ord(Head(a)) < Ord(Head(b))

\* sorted(S) for a finite set S of strings.
RECURSIVE SortedStrs(_)
SortedStrs(S) ==
    IF S = {} THEN <<>>
    ELSE LET m == CHOOSE x \in S : \A y \in S : y = x \/ StrLess(x, y)
         IN <<m>> \o SortedStrs(S \ {m})

SeqToSet(seq) == {seq[i] : i \in 1..Len(seq)}

(***************************************************************************)
(* fuzz.token_set_ratio (rapidfuzz, imported at src/app.py:7).  Scores are *)
(* exact rationals <<n, d>> (= n/d, d > 0) in [0, 100].                    *)
(***************************************************************************)

Max(a, b) == IF a >= b THEN a ELSE b

\* One row of the longest-common-subsequence table: row[j + 1] is the LCS
\* length of the prefix of a ending at character ch and the first j
\* characters of b; prev is the row before it.
RECURSIVE LcsRow(_, _, _, _)
LcsRow(prev, ch, b, acc) ==
    LET j == Len(acc) IN
    IF j > Len(b) THEN acc
    ELSE LcsRow(prev, ch, b,
                Append(acc, IF j = 0 THEN 0
                            ELSE IF ch = b[j] THEN prev[j] + 1
                            ELSE Max(prev[j + 1], acc[j])))

\* The last row of the table; each row is computed in full (its length taken)
\* before the next one is started.
RECURSIVE LcsRows(_, _, _)
LcsRows(a, b, prev) ==
    IF a = <<>> \/ Len(prev) = 0 THEN prev
    ELSE LcsRows(Tail(a), b, LcsRow(prev, Head(a), b, <<>>))

LcsLen(a, b) == LcsRows(a, b, [j \in 1..(Len(b) + 1) |-> 0])[Len(b) + 1]

\* Indel distance: insertions and deletions only.
IndelDistance(a, b) == Len(a) + Len(b) - 2 * LcsLen(a, b)

ScoreGt(x, y) == x[1] * y[2] > y[1] * x[2]

ScoreMax(S) == CHOOSE x \in S : \A y \in S : ~ScoreGt(y, x)

\* 100 - 100 * dist / lensum, and 100 when lensum is 0.
NormDistance(dist, lensum) ==
    IF lensum = 0 THEN <<100, 1>> ELSE <<100 * (lensum - dist), lensum>>

\* The three candidate ratios and their maximum, from the joined differences
\* and the length of the joined intersection.
TokenSetScore(diff_ab_joined, diff_ba_joined, sect_len, sep) ==
    LET ab_len == Len(diff_ab_joined)
        ba_len == Len(diff_ba_joined)
        sect_ab_len == sect_len + sep + ab_len
        sect_ba_len == sect_len + sep + ba_len
        result == NormDistance(IndelDistance(diff_ab_joined, diff_ba_joined),
                               sect_ab_len + sect_ba_len)
        sect_ab_ratio == NormDistance(sep + ab_len, sect_len + sect_ab_len)
        sect_ba_ratio == NormDistance(sep + ba_len, sect_len + sect_ba_len)
    IN  IF sect_len = 0 THEN result
        ELSE ScoreMax({result, sect_ab_ratio, sect_ba_ratio})

\* " ".join(sorted(tokens))
JoinSorted(tokens) == Join(<<" ">>, SortedStrs(tokens))

BoolInt(b) == IF b THEN 1 ELSE 0

TokenSetRatioOfSets(tokens_a, tokens_b, intersect) ==
    IF tokens_a = {} \/ tokens_b = {} THEN <<0, 1>>
    ELSE IF intersect # {} /\ (tokens_a \subseteq tokens_b \/ tokens_b \subseteq tokens_a)
    THEN <<100, 1>>
    ELSE TokenSetScore(JoinSorted(tokens_a \ tokens_b),
                       JoinSorted(tokens_b \ tokens_a),
                       Len(JoinSorted(intersect)),
                       BoolInt(intersect # {}))

token_set_ratio(s1, s2) ==
    TokenSetRatioOfSets(SeqToSet(split(s1)), SeqToSet(split(s2)),
                        SeqToSet(split(s1)) \cap SeqToSet(split(s2)))

\* round(score / 100.0, 4), in ten-thousandths (0.72 is 7200); halves go to
\* the even neighbour.
Round4(sc) ==
    LET q == (100 * sc[1]) \div sc[2]
        r == (100 * sc[1]) % sc[2]
    IN  IF 2 * r < sc[2] THEN q
        ELSE IF 2 * r > sc[2] THEN q + 1
        ELSE IF q % 2 = 0 THEN q ELSE q + 1

(***************************************************************************)
(* Glossary expansion and Tool 1, FAQLookup                                *)
(***************************************************************************)

WordChars == SeqToSet(LowerChars) \cup SeqToSet(UpperChars) \cup {"-"}

\* expand_query_with_glossary(q), as the set the list is built from.  G is
\* the glossary: a sequence of [term, vals] entries (the dict's items).
expand_query_with_glossary(G, q) ==
    LET words == SeqToSet(Runs(normalize(q), WordChars))
        hit == {i \in 1..Len(G) : \E w \in words : w \in SeqToSet(G[i].vals)}
    IN  {normalize(q)} \cup UNION {SeqToSet(G[i].vals) : i \in hit}

\* The score line 85-86 gives FAQ question fq: the best over all variants.
FaqEntryScore(G, query, fq) ==
    LET variants == expand_query_with_glossary(G, query) IN
    IF variants = {} THEN token_set_ratio(query, fq)
    ELSE ScoreMax({token_set_ratio(v, fq) : v \in variants})

\* Whether the scan replaces the best entry so far (line 87).
FaqBetterMutTie(sc, best_score) == ~ScoreGt(best_score, sc)

FaqBetter(sc, best_score) == ScoreGt(sc, best_score)

\* The scan of lines 84-88 from entry i on; best is <<best_score, best_idx>>
\* (best_idx is 0-based as in the source, -1 for none).
RECURSIVE FaqScan(_, _, _, _, _)
FaqScan(F, G, query, i, best) ==
    IF i > Len(F) THEN best
    ELSE LET sc == FaqEntryScore(G, query, F[i].q) IN
         FaqScan(F, G, query, i + 1,
                 IF FaqBetter(sc, best[1]) THEN <<sc, i - 1>> ELSE best)

faq_lookup(F, G, query) ==
    LET best == FaqScan(F, G, query, 1, <<<<-1, 1>>, -1>>)
        best_idx == best[2]
    IN  IF best_idx = -1 THEN [found |-> FALSE, score |-> 0]
        ELSE LET item == F[best_idx + 1] IN
             [found |-> TRUE,
              score |-> Round4(best[1]),
              matched_question |-> item.q,
              answer |-> item.a,
              id |-> item.id]

(***************************************************************************)
(* Tool 3, WorkflowGuide                                                   *)
(***************************************************************************)

RECURSIVE WorkflowScan(_, _, _, _)
WorkflowScan(W, query, i, best) ==
    IF i > Len(W) THEN best
    ELSE LET name_sc == token_set_ratio(query, normalize(W[i].name))
             id_sc == token_set_ratio(query, normalize(W[i].id))
             sc == IF ScoreGt(name_sc, id_sc) THEN name_sc ELSE id_sc
         IN  WorkflowScan(W, query, i + 1,
                          IF ScoreGt(sc, best[1]) THEN <<sc, i - 1>> ELSE best)

workflow_guide(W, name_or_id) ==
    LET query == normalize(name_or_id)
        best == WorkflowScan(W, query, 1, <<<<-1, 1>>, -1>>)
        idx == best[2]
    IN  IF idx = -1 THEN [found |-> FALSE]
        ELSE LET w == W[idx + 1] IN
             [found |-> TRUE,
              id |-> w.id,
              name |-> w.name,
              steps |-> w.steps,
              required_docs |-> w.required_docs,
              template_id |-> w.template_id,
              score |-> Round4(best[1])]

(***************************************************************************)
(* Policy markdown parsing and Tool 2, PolicyFetch                         *)
(***************************************************************************)

NL == "\n"

\* Length of the line s starts with (up to, not including, its newline).
NotNL == AllChars \ {NL}

LineLen(s) == RunLen(s, NotNL)

\* Whether the regex  #\s+  matches at the start of s.
AtH1(s) == Len(s) >= 2 /\ s[1] = "#" /\ s[2] \in WS

\* Length of the match of  #\s+.*  (no DOTALL) at the start of s, given AtH1(s):
\* the marker, the whole whitespace run (newlines included), the rest of the
\* line the run ends in.
H1MatchLen(s) ==
    LET w == RunLen(Tail(s), WS) IN 1 + w + LineLen(Drop(s, 1 + w))

\* Group 1 of that match: the text after the whitespace run, to the line's end.
H1Group(s) ==
    LET w == RunLen(Tail(s), WS) IN Take(Drop(s, 1 + w), LineLen(Drop(s, 1 + w)))

\* re.search(r"^#\s+(.*)$", content, flags=re.M): the offsets of the line
\* starts where the pattern matches.
H1Starts(content) ==
    {i \in 0..(Len(content) - 1) :
        /\ (i = 0 \/ content[i] = NL)
        /\ AtH1(Drop(content, i))}

DefaultTitle == <<"P","o","l","i","c","y">>

PolicyTitle(content) ==
    IF H1Starts(content) = {} THEN DefaultTitle
    ELSE LET i == CHOOSE k \in H1Starts(content) : \A m \in H1Starts(content) : k <= m
         IN  strip(H1Group(Drop(content, i)))

\* Whether the regex  ##\s+  matches at the start of s.
AtH2(s) == Len(s) >= 3 /\ s[1] = "#" /\ s[2] = "#" /\ s[3] \in WS

\* re.split(r"\n(?=##\s+)", s): cur is the block being collected.
RECURSIVE SplitH2(_, _)
SplitH2(s, cur) ==
    IF s = <<>> THEN <<cur>>
    ELSE IF Head(s) = NL /\ AtH2(Tail(s)) THEN <<cur>> \o SplitH2(Tail(s), <<>>)
    ELSE SplitH2(Tail(s), Append(cur, Head(s)))

\* re.sub(r"^#\s+.*$", "", s, flags=re.M): every match, left to right, is
\* deleted; bol says whether s starts at the beginning of a line.
RECURSIVE RemoveH1(_, _)
RemoveH1(s, bol) ==
    IF s = <<>> THEN <<>>
    ELSE IF bol /\ AtH1(s) THEN RemoveH1(Drop(s, H1MatchLen(s)), FALSE)
    ELSE <<Head(s)>> \o RemoveH1(Tail(s), Head(s) = NL)

\* Offset of the last newline of s (1-based index), 0 when there is none.
LastNL(s) ==
    IF \E i \in 1..Len(s) : s[i] = NL
    THEN CHOOSE i \in 1..Len(s) : s[i] = NL /\ \A j \in (i + 1)..Len(s) : s[j] # NL
    ELSE 0

\* Where group 1 of  (.*)\n(.*)$  under re.S ends: the greedy (.*) gives back
\* characters from the end of the text until a newline follows it.
HeadingEnd(rest) == LastNL(rest)

\* re.match(r"^##\s+(.*)\n(.*)$", block, flags=re.S | re.M) and the two
\* stripped groups: <<>> when there is no match, <<[heading, body]>> otherwise.
\* \s+ first takes the whole whitespace run; when no newline is left after it,
\* it gives characters back until the rest starts at the run's last newline.
MatchSection(block) ==
    IF ~AtH2(block) THEN <<>>
    ELSE LET w == RunLen(Drop(block, 2), WS)
             run == Take(Drop(block, 2), w)
             rest == Drop(block, 2 + w)
         IN  IF LastNL(rest) > 0
             THEN <<[heading |-> strip(Take(rest, HeadingEnd(rest) - 1)),
                     body |-> strip(Drop(rest, HeadingEnd(rest)))]>>
             ELSE IF LastNL(run) >= 2
             THEN <<[heading |-> <<>>,
                     body |-> strip(Drop(run, LastNL(run)) \o rest)]>>
             ELSE <<>>

\* The loop of lines 59-69 over the blocks.
RECURSIVE ParseBlocks(_)
ParseBlocks(blocks) ==
    IF blocks = <<>> THEN <<>>
    ELSE LET block == strip(RemoveH1(Head(blocks), TRUE)) IN
         (IF block = <<>> THEN <<>> ELSE MatchSection(block))
         \o ParseBlocks(Tail(blocks))

\* parse_policy_markdown(content): [title, sections]
parse_policy_markdown(content) ==
    [title |-> PolicyTitle(content),
     sections |-> ParseBlocks(SplitH2(strip(content), <<>>))]

\* _read_policy_file against the policy directory P, a function from the
\* slugs that have a file to the file's text: None is [exists |-> FALSE].
read_policy_file(P, topic_slug) ==
    IF topic_slug \in DOMAIN P
    THEN [exists |-> TRUE, text |-> P[topic_slug]]
    ELSE [exists |-> FALSE, text |-> <<>>]

Hash == <<"#">>

\* The test of line 138 on one section.
SectionMatches(target, sec) ==
    LET h == lower(strip(sec.heading)) IN Contains(target, h) \/ Contains(h, target)

\* The whole-policy result of lines 148-153.
WholePolicyMutNotFound(topic_slug, parsed) == [found |-> FALSE, topic |-> topic_slug]

WholePolicy(topic_slug, parsed) ==
    [found |-> TRUE, topic |-> topic_slug, title |-> parsed.title,
     sections |-> parsed.sections]

\* `if not content` (line 129)
NoContent(file) == ~file.exists \/ file.text = <<>>

policy_fetch(P, topic_or_section) ==
    LET s == strip(topic_or_section)
        cut == Find(Hash, s)
        topic == IF cut >= 0 THEN Take(s, cut) ELSE s
        section == IF cut >= 0 THEN Drop(s, cut + 1) ELSE <<>>
        topic_slug == slugify(topic)
        file == read_policy_file(P, topic_slug)
        parsed == parse_policy_markdown(file.text)
        target == lower(strip(section))
        hits == {i \in 1..Len(parsed.sections) :
                    SectionMatches(target, parsed.sections[i])}
    IN  IF NoContent(file) THEN [found |-> FALSE, topic |-> topic_slug]
        ELSE IF section # <<>> /\ hits # {}
        THEN LET sec == parsed.sections[CHOOSE i \in hits : \A j \in hits : i <= j]
             IN  [found |-> TRUE, topic |-> topic_slug, title |-> parsed.title,
                  section |-> sec.heading, body |-> sec.body]
        ELSE WholePolicy(topic_slug, parsed)

(***************************************************************************)
(* The corpora the process loads at import (static/faq.json,               *)
(* static/glossary.json, static/workflows.json) and the policy directory   *)
(* (static/policies/<slug>.md): inputs of the program, drawn from the      *)
(* pools below.                                                            *)
(***************************************************************************)

\* At most this many FAQ entries are loaded.
MaxFaq == 2

\* At most this many workflows are loaded.
MaxWorkflows == 2

FaqPool ==
    <<[q |-> <<"f","e","e","s"," ","s","t","r","u","c","t","u","r","e">>, a |-> <<"F","e","e"," ","p","o","r","t","a","l">>, id |-> <<"f","1">>],
      [q |-> <<"t","u","i","t","i","o","n"," ","f","e","e","s">>, a |-> <<"D","u","e"," ","i","n"," ","J","u","l","y">>, id |-> <<"f","2">>],
      [q |-> <<"l","i","b","r","a","r","y"," ","h","o","u","r","s">>, a |-> <<"9"," ","t","o"," ","5">>, id |-> <<"f","3">>],
      [q |-> <<"h","o","s","t","e","l"," ","f","e","e","s">>, a |-> <<"A","s","k"," ","w","a","r","d","e","n">>, id |-> <<"f","4">>]>>

\* One glossary entry: the synonyms of "cost".
GlossaryPool ==
    <<[term |-> <<"c","o","s","t">>, vals |-> <<<<"c","o","s","t">>, <<"f","e","e","s">>>>]>>

\* template_id is <<>> for a workflow without one, <<id>> otherwise.
WorkflowPool ==
    <<[id |-> <<"t","r","a","n","s","c","r","i","p","t">>, name |-> <<"T","r","a","n","s","c","r","i","p","t"," ","R","e","q","u","e","s","t">>, steps |-> <<<<"F","i","l","l"," ","f","o","r","m">>, <<"P","a","y"," ","f","e","e">>>>, required_docs |-> <<<<"I","D"," ","c","a","r","d">>, <<"F","e","e"," ","r","e","c","e","i","p","t">>>>, template_id |-> <<<<"t","1">>>>],
      [id |-> <<"r","e","v","a","l">>, name |-> <<"R","e","-","e","v","a","l","u","a","t","i","o","n">>, steps |-> <<<<"A","p","p","l","y"," ","o","n","l","i","n","e">>>>, required_docs |-> <<>>, template_id |-> <<>>],
      [id |-> <<"b","o","n","a","f","i","d","e">>, name |-> <<"B","o","n","a","f","i","d","e"," ","L","e","t","t","e","r">>, steps |-> <<<<"A","s","k"," ","o","f","f","i","c","e">>>>, required_docs |-> <<<<"I","D"," ","c","a","r","d">>>>, template_id |-> <<>>]>>

AttendanceSlug == <<"a","t","t","e","n","d","a","n","c","e">>

PlagiarismSlug == <<"p","l","a","g","i","a","r","i","s","m">>

\* A policy whose first section has a body of two lines.
AttendanceDoc ==
    <<"#"," ","A","t","t","e","n","d","a","n","c","e","\n","\n","#","#"," ","L","e","a","v","e","\n","A","s","k"," ","f","i","r","s","t","\n","B","r","i","n","g"," ","n","o","t","e","\n","\n","#","#"," ","P","r","o","x","y","\n","B","a","n","n","e","d","\n">>

PlagiarismDoc ==
    <<"#"," ","P","l","a","g","i","a","r","i","s","m","\n","\n","#","#"," ","P","e","n","a","l","t","y","\n","Z","e","r","o"," ","m","a","r","k","s">>

\* The policy directories: empty; attendance.md only; an empty attendance.md
\* beside plagiarism.md.
PolicyDirs ==
    { <<>>,
      (AttendanceSlug :> AttendanceDoc),
      (AttendanceSlug :> <<>>) @@ (PlagiarismSlug :> PlagiarismDoc) }

Min(a, b) == IF a <= b THEN a ELSE b

FaqCorpora == {Take(FaqPool, n) : n \in 0..Min(MaxFaq, Len(FaqPool))}

WorkflowCorpora == {Take(WorkflowPool, n) : n \in 0..Min(MaxWorkflows, Len(WorkflowPool))}

\* The questions callers ask.
Questions ==
    { <<"a","t","t","e","n","d","a","n","c","e"," ","p","o","l","i","c","y">>,
      <<" ","P","l","a","g","i","a","r","i","s","m"," "," ","R","u","l","e">>,
      <<"l","e","a","v","e"," ","p","r","o","c","e","s","s">>,
      <<"H","o","w"," ","t","o"," ","g","e","t"," ","t","r","a","n","s","c","r","i","p","t","?">>,
      <<"a","p","p","l","y"," ","r","e","-","e","v","a","l">>,
      <<"c","o","s","t">>,
      <<"t","u","t","i","o","n"," ","r","e","s","u","l","t">>,
      <<"f","e","e"," ","h","o","u","r","s">> }

\* The inputs of direct policy_fetch calls (the tool is exported, line 255).
FetchInputs ==
    { <<"a","t","t","e","n","d","a","n","c","e">>,
      <<"a","t","t","e","n","d","a","n","c","e","#","l","e","a","v","e">>,
      <<"a","t","t","e","n","d","a","n","c","e","#","m","e","d","i","c","a","l"," ","l","e","a","v","e">>,
      <<" ","A","t","t","e","n","d","a","n","c","e"," ","#","P","R","O","X","Y">>,
      <<"a","t","t","e","n","d","a","n","c","e","#">>,
      <<"p","l","a","g","i","a","r","i","s","m","#","p","e","n","a","l">>,
      <<"p","l","a","g","i","a","r","i","s","m","#","f","i","n","e">>,
      <<"e","x","a","m"," ","r","u","l","e","s","#","l","e","a","v","e">> }

(***************************************************************************)
(* The router's pure parts (naive_router, lines 184-234)                   *)
(***************************************************************************)

policy_triggers ==
    <<<<"p","o","l","i","c","y">>,
      <<"r","u","l","e">>,
      <<"a","t","t","e","n","d","a","n","c","e">>,
      <<"p","l","a","g","i","a","r","i","s","m">>,
      <<"l","e","a","v","e">>,
      <<"d","i","s","c","i","p","l","i","n","e">>>>

workflow_triggers ==
    <<<<"h","o","w"," ","t","o">>,
      <<"h","o","w"," ","d","o"," ","i">>,
      <<"s","t","e","p","s">>,
      <<"a","p","p","l","y">>,
      <<"p","r","o","c","e","s","s">>,
      <<"r","e","-","e","v","a","l">>,
      <<"r","e","e","v","a","l">>,
      <<"r","e","-","e","v","a","l","u","a","t","i","o","n">>,
      <<"t","r","a","n","s","c","r","i","p","t">>>>

\* any(k in qn for k in triggers)
AnyIn(triggers, qn) == \E i \in 1..Len(triggers) : Contains(triggers[i], qn)

\* The topic handed to policy_fetch (line 198).
PolicyTopicMutSection(qn) == AttendanceSlug \o Hash \o <<"l","e","a","v","e">>

PolicyTopic(qn) ==
    IF Contains(<<"a","t","t","e","n","d">>, qn) THEN AttendanceSlug
    ELSE IF Contains(<<"p","l","a","g">>, qn) THEN PlagiarismSlug
    ELSE AttendanceSlug

\* The key handed to workflow_guide (line 222).
WorkflowKey(qn) ==
    IF Contains(<<"r","e">>, qn) /\ Contains(<<"v","a","l">>, qn)
    THEN <<"r","e","v","a","l">>
    ELSE <<"t","r","a","n","s","c","r","i","p","t">>

\* str(i) for i >= 0
RECURSIVE IntToStr(_)
IntToStr(i) ==
    IF i < 10 THEN <<DigitChars[i + 1]>>
    ELSE IntToStr(i \div 10) \o <<DigitChars[(i % 10) + 1]>>

Blank == <<NL, NL>>

\* Lines 202-212: the answer for a found policy result.
FormatPolicy(pol) ==
    IF "body" \in DOMAIN pol
    THEN <<"#", " ">> \o pol.title \o Blank \o <<"#", "#", " ">> \o pol.section
         \o Blank \o pol.body
    ELSE Join(Blank,
              <<(<<"#", " ">> \o pol.title)>>
              \o [i \in 1..Len(pol.sections) |->
                    <<"#", "#", " ">> \o pol.sections[i].heading \o Blank
                    \o pol.sections[i].body])

\* Lines 226-231: the answer for a found workflow.
FormatWorkflow(wf) ==
    Join(<<NL>>,
         <<(<<"*", "*">> \o wf.name \o <<"*", "*">>)>>
         \o [i \in 1..Len(wf.steps) |-> IntToStr(i) \o <<".", " ">> \o wf.steps[i]]
         \o (IF wf.required_docs # <<>>
             THEN <<(<<"R","e","q","u","i","r","e","d"," ","d","o","c","s",":"," ">> \o Join(<<",", " ">>, wf.required_docs))>>
             ELSE <<>>))

\* The refusal of line 234.
FallbackAnswer ==
    <<"I"," ","d","o","n","'","t"," ","h","a","v","e"," ","t","h","i","s"," ","i","n"," ","m","y"," ","s","t","a","t","i","c"," ","k","n","o","w","l","e","d","g","e",".">>

\* The FAQ acceptance threshold of line 217, 0.72, in ten-thousandths.
FaqThreshold == 7200

\* The test of line 217.
FaqAcceptedMutStrict(faq) == faq.found /\ faq.score > FaqThreshold

FaqAcceptedMutNoThreshold(faq) == faq.found

FaqAccepted(faq) == faq.found /\ faq.score >= FaqThreshold

\* The entry ask() appends (line 241).
NoticeStep ==
    <<"Notice", [info |-> <<"N","o","-","L","L","M"," ","m","o","d","e"," ","(","o","f","f","l","i","n","e",")",".">>]>>

(***************************************************************************)
(* naive_router and ask run from start to end by one caller alone, against *)
(* corpora F, G, W and policy directory P                                  *)
(***************************************************************************)

naive_router(F, G, W, P, q) ==
    LET n == normalize(q)
        pol == policy_fetch(P, PolicyTopic(n))
        s0 == IF AnyIn(policy_triggers, n) THEN <<<<"PolicyFetch", pol>>>> ELSE <<>>
        faq == faq_lookup(F, G, q)
        s1 == Append(s0, <<"FAQLookup", faq>>)
        wf == workflow_guide(W, WorkflowKey(n))
        s2 == Append(s1, <<"WorkflowGuide", wf>>)
    IN  IF AnyIn(policy_triggers, n) /\ pol.found
        THEN [answer |-> FormatPolicy(pol), steps |-> s0]
        ELSE IF FaqAccepted(faq)
        THEN [answer |-> faq.answer, steps |-> s1]
        ELSE IF AnyIn(workflow_triggers, n)
        THEN IF wf.found
             THEN [answer |-> FormatWorkflow(wf), steps |-> s2]
             ELSE [answer |-> FallbackAnswer, steps |-> s2]
        ELSE [answer |-> FallbackAnswer, steps |-> s1]

ask(F, G, W, P, q) ==
    LET r == naive_router(F, G, W, P, q) IN
    [answer |-> r.answer, steps |-> Append(r.steps, NoticeStep)]

(***************************************************************************)
(* State                                                                   *)
(***************************************************************************)

\* The callers that may be inside ask() at the same time (threads of one
\* process sharing the module's globals).
Callers == {"c1", "c2"}

VARIABLES
    FAQ,        \* the module global FAQ (line 21)
    GLOSSARY,   \* the module global GLOSSARY (line 22), as its items
    WORKFLOWS,  \* the module global WORKFLOWS (line 23)
    POLICIES,   \* the files of POLICIES_DIR: slug -> text
    pc,         \* per caller: where its ask() call stands
    question,   \* per caller: the argument of its ask() call
    qn,         \* per caller: naive_router's local qn
    steps,      \* per caller: naive_router's local list steps
    answer,     \* per caller: the answer being returned
    branch,     \* per caller: the return statement that produced the answer
    calls,      \* per caller: the tool invocations of the call, <<tool, input>>
    fetched,    \* the last direct policy_fetch call, <<[input, result]>>
    looked      \* the last direct faq_lookup call, <<[query, result]>>

corpora == <<FAQ, GLOSSARY, WORKFLOWS, POLICIES>>

vars == <<FAQ, GLOSSARY, WORKFLOWS, POLICIES, pc, question, qn, steps, answer,
          branch, calls, fetched, looked>>

Init ==
    /\ FAQ \in FaqCorpora
    /\ GLOSSARY = GlossaryPool
    /\ WORKFLOWS \in WorkflowCorpora
    /\ POLICIES \in PolicyDirs
    /\ pc = [c \in Callers |-> "idle"]
    /\ question = [c \in Callers |-> <<>>]
    /\ qn = [c \in Callers |-> <<>>]
    /\ steps = [c \in Callers |-> <<>>]
    /\ answer = [c \in Callers |-> <<>>]
    /\ branch = [c \in Callers |-> "none"]
    /\ calls = [c \in Callers |-> <<>>]
    /\ fetched = <<>>
    /\ looked = <<>>

(***************************************************************************)
(* ask(question), one action per router branch                             *)
(***************************************************************************)

\* A caller enters ask() and naive_router: lines 240, 192-193.
AskMutKeepSteps(c, q) ==
    /\ pc[c] \in {"idle", "done"}
    /\ pc' = [pc EXCEPT ![c] = "policy"]
    /\ question' = [question EXCEPT ![c] = q]
    /\ qn' = [qn EXCEPT ![c] = normalize(q)]
    /\ answer' = [answer EXCEPT ![c] = <<>>]
    /\ branch' = [branch EXCEPT ![c] = "none"]
    /\ calls' = [calls EXCEPT ![c] = <<>>]
    /\ UNCHANGED <<corpora, steps, fetched, looked>>

Ask(c, q) ==
    /\ pc[c] \in {"idle", "done"}
    /\ pc' = [pc EXCEPT ![c] = "policy"]
    /\ question' = [question EXCEPT ![c] = q]
    /\ qn' = [qn EXCEPT ![c] = normalize(q)]
    /\ steps' = [steps EXCEPT ![c] = <<>>]
    /\ answer' = [answer EXCEPT ![c] = <<>>]
    /\ branch' = [branch EXCEPT ![c] = "none"]
    /\ calls' = [calls EXCEPT ![c] = <<>>]
    /\ UNCHANGED <<corpora, fetched, looked>>

\* The caller returns answer a from the return statement of branch b.
Return(c, a, b) ==
    /\ answer' = [answer EXCEPT ![c] = a]
    /\ branch' = [branch EXCEPT ![c] = b]
    /\ pc' = [pc EXCEPT ![c] = "notice"]

\* The caller calls a tool and appends its record (lines 199-200, 215-216,
\* 223-224).
RecordMutOnlyFound(c, tool, input, result) ==
    /\ steps' = [steps EXCEPT ![c] = IF result.found THEN Append(@, <<tool, result>>) ELSE @]
    /\ calls' = [calls EXCEPT ![c] = Append(@, <<tool, input>>)]

Record(c, tool, input, result) ==
    /\ steps' = [steps EXCEPT ![c] = Append(@, <<tool, result>>)]
    /\ calls' = [calls EXCEPT ![c] = Append(@, <<tool, input>>)]

\* Branch 0, lines 195-212.
PolicyBranchMutFallThrough(c) ==
    /\ pc[c] = "policy"
    /\ IF AnyIn(policy_triggers, qn[c])
       THEN Record(c, "PolicyFetch", PolicyTopic(qn[c]),
                   policy_fetch(POLICIES, PolicyTopic(qn[c])))
       ELSE UNCHANGED <<steps, calls>>
    /\ pc' = [pc EXCEPT ![c] = "faq"]
    /\ UNCHANGED <<corpora, question, qn, answer, branch, fetched, looked>>

PolicyBranch(c) ==
    /\ pc[c] = "policy"
    /\ IF AnyIn(policy_triggers, qn[c])
       THEN LET topic == PolicyTopic(qn[c])
                pol == policy_fetch(POLICIES, topic)
            IN  /\ Record(c, "PolicyFetch", topic, pol)
                /\ IF pol.found
                   THEN Return(c, FormatPolicy(pol), "policy")
                   ELSE /\ pc' = [pc EXCEPT ![c] = "faq"]
                        /\ UNCHANGED <<answer, branch>>
       ELSE /\ pc' = [pc EXCEPT ![c] = "faq"]
            /\ UNCHANGED <<steps, calls, answer, branch>>
    /\ UNCHANGED <<corpora, question, qn, fetched, looked>>

\* Branch 1, lines 214-218.
FaqBranch(c) ==
    /\ pc[c] = "faq"
    /\ LET faq == faq_lookup(FAQ, GLOSSARY, question[c]) IN
        /\ Record(c, "FAQLookup", question[c], faq)
        /\ IF FaqAccepted(faq)
           THEN Return(c, faq.answer, "faq")
           ELSE /\ pc' = [pc EXCEPT ![c] = "workflow"]
                /\ UNCHANGED <<answer, branch>>
    /\ UNCHANGED <<corpora, question, qn, fetched, looked>>

\* Branches 2 and 3, lines 220-234.
WorkflowBranch(c) ==
    /\ pc[c] = "workflow"
    /\ IF AnyIn(workflow_triggers, qn[c])
       THEN LET wf_key == WorkflowKey(qn[c])
                wf == workflow_guide(WORKFLOWS, wf_key)
            IN  /\ Record(c, "WorkflowGuide", wf_key, wf)
                /\ IF wf.found
                   THEN Return(c, FormatWorkflow(wf), "workflow")
                   ELSE Return(c, FallbackAnswer, "fallback")
       ELSE /\ Return(c, FallbackAnswer, "fallback")
            /\ UNCHANGED <<steps, calls>>
    /\ UNCHANGED <<corpora, question, qn, fetched, looked>>

\* ask() appends the notice and returns: lines 241-242.
AskNoticeMutNone(c) ==
    /\ pc[c] = "notice"
    /\ pc' = [pc EXCEPT ![c] = "done"]
    /\ UNCHANGED <<corpora, question, qn, steps, answer, branch, calls, fetched, looked>>

AskNotice(c) ==
    /\ pc[c] = "notice"
    /\ steps' = [steps EXCEPT ![c] = Append(@, NoticeStep)]
    /\ pc' = [pc EXCEPT ![c] = "done"]
    /\ UNCHANGED <<corpora, question, qn, answer, branch, calls, fetched, looked>>

Next ==
    \E c \in Callers :
        \/ \E q \in Questions : Ask(c, q)
        \/ PolicyBranch(c)
        \/ FaqBranch(c)
        \/ WorkflowBranch(c)
        \/ AskNotice(c)

Spec == Init /\ [][Next]_vars

(***************************************************************************)
(* The tools called directly: policy_fetch is exported (line 255) and      *)
(* called by the front end, faq_lookup is a module-level function.         *)
(***************************************************************************)

router == <<pc, question, qn, steps, answer, branch, calls>>

Fetch(input) ==
    /\ fetched' = <<[input |-> input, result |-> policy_fetch(POLICIES, input)]>>
    /\ UNCHANGED <<corpora, router, looked>>

Lookup(query) ==
    /\ looked' = <<[query |-> query, result |-> faq_lookup(FAQ, GLOSSARY, query)]>>
    /\ UNCHANGED <<corpora, router, fetched>>

NextTools ==
    \/ \E input \in FetchInputs : Fetch(input)
    \/ \E query \in Questions : Lookup(query)

SpecTools == Init /\ [][NextTools]_vars

(***************************************************************************)
(* Properties                                                              *)
(***************************************************************************)

ToolNames(s) == [i \in 1..Len(s) |-> s[i][1]]

\* The records naive_router appended: the trail without ask()'s notice.
RouterSteps(c) == SelectSeq(steps[c], LAMBDA e : e[1] # "Notice")

\* The indexes of caller c's trail that hold a record of the tool.
RecordsOf(c, tool) == {i \in 1..Len(steps[c]) : steps[c][i][1] = tool}

Returned(c) == pc[c] \in {"notice", "done"}

\* C1: whenever ask() has returned, whichever branch answered, the trail's
\* last entry is the notice ("Notice", {"info": "No-LLM mode (offline)."}),
\* and no other entry of the trail is a notice; before ask() returns the
\* trail holds no notice at all.
C1_NoticeLast ==
    \A c \in Callers :
        /\ pc[c] = "done" =>
            /\ Len(steps[c]) >= 1
            /\ steps[c][Len(steps[c])] = NoticeStep
            /\ RecordsOf(c, "Notice") = {Len(steps[c])}
        /\ pc[c] # "done" => RecordsOf(c, "Notice") = {}

\* Two finished calls, one answered by the policy branch and one by the
\* fallback.
C1_Witness ==
    /\ pc["c1"] = "done" /\ branch["c1"] = "policy"
    /\ pc["c2"] = "done" /\ branch["c2"] = "fallback"

\* C2: once a call whose normalized question contains a policy trigger is past
\* the policy branch, its first record is PolicyFetch; if that result is
\* found, the call has returned the policy-formatted answer and PolicyFetch
\* is the only tool invoked and recorded; if it is not found, the call is at
\* the FAQ branch or its second invocation and record are FAQLookup.
C2_PolicyShortCircuit ==
    \A c \in Callers :
        (pc[c] \notin {"idle", "policy"}
         /\ AnyIn(policy_triggers, normalize(question[c]))) =>
            /\ Len(steps[c]) >= 1
            /\ steps[c][1][1] = "PolicyFetch"
            /\ LET pol == steps[c][1][2] IN
                IF pol.found
                THEN /\ Returned(c)
                     /\ branch[c] = "policy"
                     /\ answer[c] = FormatPolicy(pol)
                     /\ ToolNames(RouterSteps(c)) = <<"PolicyFetch">>
                     /\ ToolNames(calls[c]) = <<"PolicyFetch">>
                ELSE /\ branch[c] # "policy"
                     /\ \/ pc[c] = "faq" /\ Len(steps[c]) = 1
                        \/ /\ Len(steps[c]) >= 2
                           /\ steps[c][2][1] = "FAQLookup"
                           /\ Len(calls[c]) >= 2
                           /\ calls[c][2][1] = "FAQLookup"

\* One call short-circuited by a found policy, another fallen through to the
\* FAQ after a policy that was not found.
C2_Witness ==
    \E c, d \in Callers :
        /\ Returned(c) /\ branch[c] = "policy" /\ steps[c][1][2].found
        /\ Len(steps[d]) >= 2
        /\ steps[d][1][1] = "PolicyFetch" /\ ~steps[d][1][2].found
        /\ steps[d][2][1] = "FAQLookup"

\* C3: once a call has made its FAQ lookup, it has returned from the FAQ branch
\* with the matched entry's stored answer if and only if the lookup reported
\* found with score >= 0.72; otherwise it went on to the workflow branch and
\* its answer is not that FAQ answer.
C3_FaqThreshold ==
    \A c \in Callers : \A i \in RecordsOf(c, "FAQLookup") :
        LET faq == steps[c][i][2] IN
        IF faq.found /\ faq.score >= FaqThreshold
        THEN /\ Returned(c)
             /\ branch[c] = "faq"
             /\ answer[c] = faq.answer
             /\ \E k \in 1..Len(FAQ) :
                    FAQ[k].q = faq.matched_question /\ FAQ[k].a = answer[c]
        ELSE /\ branch[c] # "faq"
             /\ pc[c] = "workflow" \/ branch[c] \in {"workflow", "fallback"}
             /\ faq.found => answer[c] # faq.answer

\* A lookup that scored exactly 0.72 and was answered from the FAQ, beside one
\* that scored below 0.72 and went on.
C3_Witness ==
    \E c, d \in Callers :
        /\ \E i \in RecordsOf(c, "FAQLookup") :
              steps[c][i][2].found /\ steps[c][i][2].score = FaqThreshold
        /\ branch[c] = "faq"
        /\ \E i \in RecordsOf(d, "FAQLookup") :
              /\ steps[d][i][2].found
              /\ steps[d][i][2].score > 0
              /\ steps[d][i][2].score < FaqThreshold
        /\ branch[d] = "fallback"

\* Whether some loaded FAQ entry scores >= 0.72 for the question.
SomeFaqScores(q) ==
    \E k \in 1..Len(FAQ) :
        Round4(FaqEntryScore(GLOSSARY, q, FAQ[k].q)) >= FaqThreshold

\* C4: a finished call whose question holds no policy trigger word and no
\* workflow trigger phrase, and for which no FAQ entry scores >= 0.72, has
\* the fixed refusal as its answer, with the one FAQLookup record made so far
\* (and then the notice) as its evidence.
C4_Fallback ==
    \A c \in Callers :
        (/\ pc[c] = "done"
         /\ ~AnyIn(policy_triggers, normalize(question[c]))
         /\ ~AnyIn(workflow_triggers, normalize(question[c]))
         /\ ~SomeFaqScores(question[c])) =>
            /\ answer[c] = FallbackAnswer
            /\ ToolNames(steps[c]) = <<"FAQLookup", "Notice">>

\* Such a call, over a non-empty FAQ corpus whose best entry scores above 0.
C4_Witness ==
    \E c \in Callers :
        /\ pc[c] = "done"
        /\ ~AnyIn(policy_triggers, normalize(question[c]))
        /\ ~AnyIn(workflow_triggers, normalize(question[c]))
        /\ ~SomeFaqScores(question[c])
        /\ steps[c][1][2].found /\ steps[c][1][2].score > 0
        /\ answer[c] = FallbackAnswer

ToolOrder == <<"PolicyFetch", "FAQLookup", "WorkflowGuide">>

\* Whether names is a subsequence of ToolOrder (so each name is at most once).
InToolOrder(names) ==
    /\ \A i \in 1..Len(names) : IndexIn(names[i], ToolOrder) > 0
    /\ \A i, j \in 1..Len(names) :
          i < j => IndexIn(names[i], ToolOrder) < IndexIn(names[j], ToolOrder)

\* A step of caller c either starts a new call with an empty trail or only
\* appends to the trail.
AppendOnly(c) ==
    \/ pc[c] \in {"idle", "done"} /\ steps'[c] = <<>>
    \/ /\ Len(steps'[c]) >= Len(steps[c])
       /\ Take(steps'[c], Len(steps[c])) = steps[c]

\* C5: within one call the records the router appended are, one for one and
\* in order, the tools it invoked (found or not); they form a subsequence of
\* PolicyFetch, FAQLookup, WorkflowGuide; and no step removes or reorders
\* records.
C5_EvidenceTrail ==
    /\ [](\A c \in Callers :
            /\ ToolNames(RouterSteps(c)) = ToolNames(calls[c])
            /\ InToolOrder(ToolNames(RouterSteps(c))))
    /\ [][\A c \in Callers : AppendOnly(c)]_vars

\* A trail holding all three tools, the first of which reported found=false.
C5_Witness ==
    \E c \in Callers :
        /\ ToolNames(RouterSteps(c)) = ToolOrder
        /\ ~steps[c][1][2].found

\* The section the claim describes for a block that starts with a
\* second-level heading: the heading is the rest of the first line after the
\* marker, the body everything after that line, both trimmed.
ClaimedSection(block) ==
    LET text == Drop(block, 2)
        n == LineLen(text)
    IN  [heading |-> strip(Take(text, n)),
         body |-> strip(SubSeq(text, Min(n + 2, Len(text) + 1), Len(text)))]

ClaimedSections(content) ==
    LET blocks == SelectSeq(SplitH2(strip(content), <<>>), AtH2)
    IN  [i \in 1..Len(blocks) |-> ClaimedSection(strip(blocks[i]))]

\* C6: the sections a whole-policy fetch returns are, for every block of the
\* document that starts with a second-level heading and in document order,
\* heading = rest of the block's first line, body = everything after that
\* line, trimmed, whatever the number of body lines.
C6_SectionsAsClaimed ==
    \A k \in 1..Len(fetched) :
        "sections" \in DOMAIN fetched[k].result =>
            fetched[k].result.sections = ClaimedSections(POLICIES[fetched[k].result.topic])

\* The slug and the requested section of a policy_fetch input.
InputTopicSlug(input) ==
    LET s == strip(input) IN
    slugify(IF Find(Hash, s) >= 0 THEN Take(s, Find(Hash, s)) ELSE s)

InputSection(input) ==
    LET s == strip(input) IN
    IF Find(Hash, s) >= 0 THEN Drop(s, Find(Hash, s) + 1) ELSE <<>>

\* Whether some parsed heading of the document matches the requested section
\* (one contains the other, case-insensitively).
SomeHeadingMatches(doc, section) ==
    \E i \in 1..Len(parse_policy_markdown(doc).sections) :
        LET h == lower(strip(parse_policy_markdown(doc).sections[i].heading))
            target == lower(strip(section))
        IN  Contains(target, h) \/ Contains(h, target)

\* C7 as stated: every input whose topic slug has a stored document gets
\* found=true (with all sections when no heading matches the requested
\* section), and found=false is returned only when no document exists.
C7_FoundWheneverStored ==
    \A k \in 1..Len(fetched) :
        LET slug == InputTopicSlug(fetched[k].input)
            r == fetched[k].result
        IN  /\ slug \in DOMAIN POLICIES => r.found
            /\ ~r.found => slug \notin DOMAIN POLICIES

\* C7, amended: every input whose topic slug has a stored, non-empty document
\* gets found=true, whatever its section part; when a section is requested
\* and no parsed heading matches it, the result carries the full ordered
\* list of sections and no single section/body; found=false is returned
\* only when no document exists for the slug or the stored document is empty.
C7_SectionNeverNotFound ==
    \A k \in 1..Len(fetched) :
        LET slug == InputTopicSlug(fetched[k].input)
            section == InputSection(fetched[k].input)
            r == fetched[k].result
            stored == slug \in DOMAIN POLICIES /\ POLICIES[slug] # <<>>
        IN  /\ r.found <=> stored
            /\ (stored /\ ~SomeHeadingMatches(POLICIES[slug], section)) =>
                  /\ DOMAIN r = {"found", "topic", "title", "sections"}
                  /\ r.sections = parse_policy_markdown(POLICIES[slug]).sections

\* A fetch that asked for a section no heading matches and got the whole
\* policy, with its sections.
C7_Witness ==
    \E k \in 1..Len(fetched) :
        /\ strip(InputSection(fetched[k].input)) # <<>>
        /\ InputTopicSlug(fetched[k].input) \in DOMAIN POLICIES
        /\ ~SomeHeadingMatches(POLICIES[InputTopicSlug(fetched[k].input)],
                               InputSection(fetched[k].input))
        /\ fetched[k].result.found
        /\ "sections" \in DOMAIN fetched[k].result
        /\ Len(fetched[k].result.sections) >= 1

\* The best-over-variants scores of the loaded FAQ entries for query q, in
\* corpus order (from entry i on).
RECURSIVE EntryScores(_, _)
EntryScores(q, i) ==
    IF i > Len(FAQ) THEN <<>>
    ELSE <<FaqEntryScore(GLOSSARY, q, FAQ[i].q)>> \o EntryScores(q, i + 1)

\* C8: faq_lookup reports found=false exactly when the FAQ corpus is empty,
\* and then score 0; on a non-empty corpus it reports, for every query, the
\* entry whose best-over-variants similarity is maximal over the corpus, the
\* earliest one on ties, with that similarity (rounded) as its score.
C8_FaqBestEarliest ==
    \A n \in 1..Len(looked) :
        LET faq == looked[n].result
            sc == EntryScores(looked[n].query, 1)
        IN  /\ faq.found <=> FAQ # <<>>
            /\ ~faq.found => faq.score = 0
            /\ faq.found =>
                  \E k \in 1..Len(FAQ) :
                      /\ \A j \in 1..Len(FAQ) : ~ScoreGt(sc[j], sc[k])
                      /\ \A j \in 1..(k - 1) : ScoreGt(sc[k], sc[j])
                      /\ faq.matched_question = FAQ[k].q
                      /\ faq.answer = FAQ[k].a
                      /\ faq.id = FAQ[k].id
                      /\ faq.score = Round4(sc[k])

\* A lookup over a corpus in which the first two entries tie for the best
\* score: the first of them was returned.
C8_Witness ==
    \E n \in 1..Len(looked) :
        LET sc == EntryScores(looked[n].query, 1) IN
        /\ Len(FAQ) >= 2
        /\ sc[1] = sc[2]
        /\ \A j \in 1..Len(FAQ) : ~ScoreGt(sc[j], sc[1])
        /\ looked[n].result.matched_question = FAQ[1].q

\* C9: no step of any call changes the FAQ, glossary or workflow corpora (or
\* the policy files), and under every interleaving a finished call holds
\* exactly the answer and evidence trail that ask() gives for its question
\* when run alone.
C9_CallsIndependent ==
    /\ [](\A c \in Callers :
            pc[c] = "done" =>
                [answer |-> answer[c], steps |-> steps[c]]
                    = ask(FAQ, GLOSSARY, WORKFLOWS, POLICIES, question[c]))
    /\ [][corpora' = corpora]_vars

\* One call finished while another, for a different question, is in the
\* middle of the router with records of its own.
C9_Witness ==
    /\ pc["c1"] = "done"
    /\ pc["c2"] = "workflow"
    /\ Len(steps["c2"]) >= 2
    /\ question["c1"] # question["c2"]
    /\ Len(steps["c1"]) >= 3

\* The whole-document answer: "# <title>" followed by every section as
\* "## <heading>\n\n<body>", joined by blank lines.
WholeDocumentAnswer(title, sections) ==
    Join(<<NL, NL>>,
         <<(<<"#", " ">> \o title)>>
         \o [i \in 1..Len(sections) |->
               <<"#", "#", " ">> \o sections[i].heading \o <<NL, NL>> \o sections[i].body])

\* C10: every policy_fetch the router makes gets the bare topic "attendance"
\* or "plagiarism"; no PolicyFetch record carries a single section/body; and
\* every answer of the policy branch is the whole-document form.
C10_BareTopicOnly ==
    \A c \in Callers :
        /\ \A i \in 1..Len(calls[c]) :
              calls[c][i][1] = "PolicyFetch" =>
                  /\ calls[c][i][2] \in {AttendanceSlug, PlagiarismSlug}
                  /\ ~Contains(Hash, calls[c][i][2])
        /\ \A i \in RecordsOf(c, "PolicyFetch") :
              /\ "body" \notin DOMAIN steps[c][i][2]
              /\ "section" \notin DOMAIN steps[c][i][2]
              /\ branch[c] = "policy" =>
                    answer[c] = WholeDocumentAnswer(steps[c][i][2].title,
                                                    steps[c][i][2].sections)

\* A policy answer built from a document of two sections.
C10_Witness ==
    \E c \in Callers :
        /\ pc[c] = "done" /\ branch[c] = "policy"
        /\ Len(steps[c][1][2].sections) >= 2
        /\ calls[c] = <<<<"PolicyFetch", AttendanceSlug>>>>

=============================================================================
